---------------------------- MODULE Spec2Model ----------------------------
(*
  A model of src/server.js (the Fariscope room broker): the management-token
  cache (getValidToken), the request rate limiter (checkRateLimit), the
  in-memory room store with its request handlers (create-room, join-room,
  disable-room, GET /rooms), the startup reconciliation
  (initializeRoomStore) and the periodic sweep (checkInactiveRooms), against
  an upstream platform (100ms) whose rooms the handlers create, enable and
  disable.

  Time is a natural-number clock `now` (Date.now()), in units in which the
  configured durations are small numbers. Every `await` of the source is a
  suspension point: the synchronous code between two awaits is one action.

  The specifications of the module:
    SpecToken  the credential manager alone (generateInitialToken,
               getValidToken called at arbitrary times),
    SpecRate   the rate limiter alone (checkRateLimit called at arbitrary
               times by several client keys),
    Spec       the whole server: startup, the handlers, the sweep and the
               upstream platform, interleaved at every await,
    SpecSeq    the server with one owner's room, one request or sweep
               started at a time (a client that waits for each response
               before its next call), startup included,
    SpecLate   SpecSeq with the clock running to MaxLate,
    SpecRace   the server after startup with one owner's room, two requests
               and the sweep interleaved at every await,
    SpecOwner  the server after startup with one owner's create-room and
               disable-room and a viewer's join-room, interleaved, and the
               sweep,
    SpecHang   the sweep and join-room requests while the platform never
               answers the disable calls for one room, with fairness,
    SpecSweep  startup, the sweep and join-room requests on every room,
    SpecRefresh the server after startup with the clock running to MaxLate,
               where the token is stale: join-room requests, two in flight
               at once, and the sweep.
*)
EXTENDS Integers, Sequences, FiniteSets, TLC

(* ------------------------------ bounds ------------------------------ *)

\* the clock of the server specifications stops here
MaxTime == 2
\* the clock of SpecLate and SpecRefresh stops here
MaxLate == 3
\* the clock of SpecToken and SpecRate stops here
MaxClock == 5
\* calls of checkRateLimit in SpecRate
MaxCalls == 4
\* tokens minted in SpecToken
MaxMints == 3

(* ------------------------ program constants ------------------------- *)

\* src/server.js:12 (600000 ms), in clock units
RATE_LIMIT_WINDOW_MS == 3
\* src/server.js:13 (300)
MAX_REQUESTS_PER_WINDOW == 2
\* src/server.js:16 (300000 ms), in clock units
ROOM_TIMEOUT_MS == 1
\* src/server.js:21 (12 hours), in clock units
TOKEN_VALIDITY_DURATION == 2

\* the client keys (x-forwarded-for, or 'unknown')
Ips == {"unknown", "10.0.0.1"}
\* the client key of the requests of the server specifications (no
\* x-forwarded-for)
ServerIps == {"unknown"}

\* the owner identities (fids) that send requests; the upstream room named
\* <prefix>-<n> has the room id n
Owners == {1, 2}
RoomIds == Owners
\* a room id no upstream room has
UnknownRoomId == 9
\* !roomId: the field is missing
NoRoomId == 0
\* request handlers in flight at once
Slots == {1, 2}
\* checkInactiveRooms runs in flight at once
Sweeps == {1}
\* a body's fid arrives as a JSON number or as a string; the regular
\* expression match of initializeRoomStore yields a string
Reps == {"number", "string"}
FidValues == [rep : Reps, num : Owners]
\* !fid: undefined, 0
NoFid == [rep |-> "number", num |-> 0]
\* a fid that is present and not a positive integer ("0", "abc", -1)
BadFid == [rep |-> "string", num |-> 0]
\* well-formed addresses, a malformed one, and a missing one (undefined, '')
Addresses == {"0xA", "0xB"}
BadAddress == "0xZ"
NoAddress == ""

\* the empty string '' of `let managementToken = ''`
NoToken == 0

\* rateLimit.get(ip) === undefined
NoEntry == [count |-> 0, timestamp |-> -1]

VARIABLES
    now,                \* Date.now()
    managementToken,    \* the cached token (NoToken: '')
    tokenGeneratedAt,   \* its issuance time
    mintCount,          \* tokens minted so far: the next token's identity (jwtid)
    tokenCall,          \* history: the last generateInitialToken / getValidToken call
    rateLimit,          \* Map: client key -> {count, timestamp}
    windowStart,        \* history: when the key's entry was created (count went 0 -> 1)
    requestLog,         \* history: the times of the key's checkRateLimit calls
    rateCall,           \* history: the last checkRateLimit call
    admitted,           \* history: per key, the admitted calls since its entry was
                        \* created and the time of its last admitted call
    hms,                \* the upstream platform: room id -> "none" | "enabled" | "disabled"
    roomStore,          \* Map: room id -> record (NoRoom: no entry)
    roomOrder,          \* the Map's key order (insertion order), as entries() walks it
    reqs,               \* the request handlers in flight, one per slot
    sweeps,             \* the checkInactiveRooms runs in flight
    init,               \* initializeRoomStore's progress (once done, resp
                        \* keeps the listing's outcome)
    out,                \* the response the last step sent to a client (NoOut: the
                        \* step sent none)
    prevCreate,         \* history: a create-room for the owner returned and its room
                        \* was not disabled upstream since
    sweepFailed,        \* history: the sweep's last disable call for the room
                        \* failed and the room's record was not written since
    retired             \* history: a disable-room request for the room succeeded
                        \* and no create-room stored the room since

tokenVars == <<managementToken, tokenGeneratedAt, mintCount, tokenCall>>
rateVars == <<rateLimit, windowStart, requestLog, rateCall, admitted>>
rateHistory == <<windowStart, requestLog, rateCall, admitted>>
serverVars == <<hms, roomStore, roomOrder, reqs, sweeps, init, out, prevCreate,
                sweepFailed, retired>>
vars == <<now, tokenVars, rateVars, serverVars>>

(* ------------------------ credential manager ------------------------ *)

\* generateManagementToken: a freshly signed token (a unique jwtid: the
\* serial of the mint), or a throw (missing keys, jwt.sign failing)
generateManagementToken(serial) == serial + 1

\* getValidToken at time t; mintOk: whether generateManagementToken returns.
\* The result: the cache after the call, whether a mint was attempted and
\* succeeded, whether the call threw, and the token returned.
GetValidToken_NoFallback(tok, gen, serial, t, mintOk) ==
    IF tok = NoToken \/ t - gen > TOKEN_VALIDITY_DURATION
    THEN IF mintOk
         THEN [token |-> generateManagementToken(serial), generatedAt |-> t,
               attempted |-> TRUE, minted |-> TRUE, threw |-> FALSE,
               result |-> generateManagementToken(serial)]
         ELSE [token |-> NoToken, generatedAt |-> gen,
               attempted |-> TRUE, minted |-> FALSE, threw |-> TRUE,
               result |-> NoToken]
    ELSE [token |-> tok, generatedAt |-> gen,
          attempted |-> FALSE, minted |-> FALSE, threw |-> FALSE, result |-> tok]

GetValidToken_EagerRefresh(tok, gen, serial, t, mintOk) ==
    IF tok = NoToken \/ t - gen >= TOKEN_VALIDITY_DURATION
    THEN IF mintOk
         THEN [token |-> generateManagementToken(serial), generatedAt |-> t,
               attempted |-> TRUE, minted |-> TRUE, threw |-> FALSE,
               result |-> generateManagementToken(serial)]
         ELSE [token |-> tok, generatedAt |-> gen,
               attempted |-> TRUE, minted |-> FALSE, threw |-> (tok = NoToken),
               result |-> tok]
    ELSE [token |-> tok, generatedAt |-> gen,
          attempted |-> FALSE, minted |-> FALSE, threw |-> FALSE, result |-> tok]

\* a refresh that clears the cache before it mints
GetValidToken_ClearFirst(tok, gen, serial, t, mintOk) ==
    IF tok = NoToken \/ t - gen > TOKEN_VALIDITY_DURATION
    THEN IF mintOk
         THEN [token |-> generateManagementToken(serial), generatedAt |-> t,
               attempted |-> TRUE, minted |-> TRUE, threw |-> FALSE,
               result |-> generateManagementToken(serial)]
         ELSE [token |-> NoToken, generatedAt |-> gen,
               attempted |-> TRUE, minted |-> FALSE, threw |-> FALSE,
               result |-> NoToken]
    ELSE [token |-> tok, generatedAt |-> gen,
          attempted |-> FALSE, minted |-> FALSE, threw |-> FALSE, result |-> tok]

GetValidToken(tok, gen, serial, t, mintOk) ==
    IF tok = NoToken \/ t - gen > TOKEN_VALIDITY_DURATION
    THEN IF mintOk
         THEN [token |-> generateManagementToken(serial), generatedAt |-> t,
               attempted |-> TRUE, minted |-> TRUE, threw |-> FALSE,
               result |-> generateManagementToken(serial)]
         ELSE [token |-> tok, generatedAt |-> gen,
               attempted |-> TRUE, minted |-> FALSE, threw |-> (tok = NoToken),
               result |-> tok]
    ELSE [token |-> tok, generatedAt |-> gen,
          attempted |-> FALSE, minted |-> FALSE, threw |-> FALSE, result |-> tok]

NoTokenCall ==
    [op |-> "none", at |-> 0, tokenBefore |-> NoToken, generatedBefore |-> 0,
     everMinted |-> FALSE, attempted |-> FALSE, minted |-> FALSE,
     threw |-> FALSE, result |-> NoToken]

TokenInit ==
    /\ managementToken = NoToken
    /\ tokenGeneratedAt = 0
    /\ mintCount = 0
    /\ tokenCall = NoTokenCall

\* generateInitialToken (startup): mint and stamp, or throw (the caller exits)
generateInitialToken ==
    /\ tokenCall.op = "none"
    /\ \E mintOk \in BOOLEAN :
        /\ managementToken' = IF mintOk THEN generateManagementToken(mintCount)
                              ELSE managementToken
        /\ tokenGeneratedAt' = IF mintOk THEN now ELSE tokenGeneratedAt
        /\ mintCount' = IF mintOk THEN mintCount + 1 ELSE mintCount
        /\ tokenCall' = [op |-> "generateInitialToken", at |-> now,
                         tokenBefore |-> managementToken,
                         generatedBefore |-> tokenGeneratedAt,
                         everMinted |-> mintCount > 0,
                         attempted |-> TRUE, minted |-> mintOk, threw |-> ~mintOk,
                         result |-> IF mintOk THEN generateManagementToken(mintCount)
                                    ELSE NoToken]
    /\ UNCHANGED <<now, rateVars, serverVars>>

\* a caller (fetchFromHMS) asks for the token
getValidToken ==
    /\ mintCount < MaxMints
    /\ \E mintOk \in BOOLEAN :
        LET r == GetValidToken(managementToken, tokenGeneratedAt, mintCount, now, mintOk)
        IN  /\ managementToken' = r.token
            /\ tokenGeneratedAt' = r.generatedAt
            /\ mintCount' = IF r.minted THEN mintCount + 1 ELSE mintCount
            /\ tokenCall' = [op |-> "getValidToken", at |-> now,
                             tokenBefore |-> managementToken,
                             generatedBefore |-> tokenGeneratedAt,
                             everMinted |-> mintCount > 0,
                             attempted |-> r.attempted, minted |-> r.minted,
                             threw |-> r.threw, result |-> r.result]
    /\ UNCHANGED <<now, rateVars, serverVars>>

ClockTick ==
    /\ now < MaxClock
    /\ now' = now + 1
    /\ UNCHANGED <<tokenVars, rateVars, serverVars>>

(* --------------------------- rate limiter --------------------------- *)

\* lines 214-219: drop every entry whose timestamp is before now - window
Purge(rl, t) ==
    [k \in Ips |-> IF rl[k] # NoEntry /\ rl[k].timestamp < t - RATE_LIMIT_WINDOW_MS
                   THEN NoEntry ELSE rl[k]]

\* line 221: rateLimit.get(ip) || { count: 0, timestamp: now }
UserData(rl, ip, t) ==
    IF Purge(rl, t)[ip] = NoEntry THEN [count |-> 0, timestamp |-> t]
    ELSE Purge(rl, t)[ip]

\* line 223: the call throws 'Rate limit exceeded'
RateLimited(rl, ip, t) == UserData(rl, ip, t).count >= MAX_REQUESTS_PER_WINDOW

\* a limiter whose rejected calls stamp the entry too
CheckRateLimit_RejectStamps(rl, ip, t) ==
    IF RateLimited(rl, ip, t)
    THEN [Purge(rl, t) EXCEPT ![ip] =
            [count |-> UserData(rl, ip, t).count, timestamp |-> t]]
    ELSE [Purge(rl, t) EXCEPT ![ip] =
            [count |-> UserData(rl, ip, t).count + 1, timestamp |-> t]]

\* a limiter that stamps an entry only when it creates it
CheckRateLimit_StampOnce(rl, ip, t) ==
    IF RateLimited(rl, ip, t) THEN Purge(rl, t)
    ELSE [Purge(rl, t) EXCEPT ![ip] =
            [count |-> UserData(rl, ip, t).count + 1,
             timestamp |-> UserData(rl, ip, t).timestamp]]

\* checkRateLimit: the map after the call (the purge is kept when it throws)
CheckRateLimit(rl, ip, t) ==
    IF RateLimited(rl, ip, t) THEN Purge(rl, t)
    ELSE [Purge(rl, t) EXCEPT ![ip] =
            [count |-> UserData(rl, ip, t).count + 1, timestamp |-> t]]

NoRateCall == [ip |-> "none", at |-> 0, before |-> NoEntry, startBefore |-> -1,
               lastBefore |-> -1, rejectedSince |-> 0, admitted |-> FALSE]

RateInit ==
    /\ rateLimit = [k \in Ips |-> NoEntry]
    /\ windowStart = [k \in Ips |-> -1]
    /\ requestLog = [k \in Ips |-> <<>>]
    /\ rateCall = NoRateCall
    /\ admitted = [k \in Ips |-> [since |-> 0, last |-> -1, rejected |-> 0]]

\* history of a checkRateLimit(ip) call at time t
RateHistory(ip, t) ==
    /\ windowStart' = [k \in Ips |->
          IF CheckRateLimit(rateLimit, ip, t)[k] = NoEntry THEN -1
          ELSE IF k = ip /\ CheckRateLimit(rateLimit, ip, t)[k].count = 1 THEN t
          ELSE windowStart[k]]
    /\ rateCall' = [ip |-> ip, at |-> t, before |-> rateLimit[ip],
                    startBefore |-> windowStart[ip],
                    lastBefore |-> admitted[ip].last,
                    rejectedSince |-> admitted[ip].rejected,
                    admitted |-> ~RateLimited(rateLimit, ip, t)]
    /\ admitted' = [k \in Ips |->
          IF k = ip
          THEN IF RateLimited(rateLimit, ip, t)
               THEN [admitted[k] EXCEPT !.rejected = 1]
               ELSE [since |-> IF Purge(rateLimit, t)[k] = NoEntry THEN 1
                               ELSE admitted[k].since + 1,
                     last |-> t, rejected |-> 0]
          ELSE IF Purge(rateLimit, t)[k] = NoEntry
               THEN [admitted[k] EXCEPT !.since = 0]
               ELSE admitted[k]]

\* a request of client key ip reaches checkRateLimit
checkRateLimit(ip) ==
    /\ Len(requestLog[ip]) < MaxCalls
    /\ rateLimit' = CheckRateLimit(rateLimit, ip, now)
    /\ requestLog' = [requestLog EXCEPT ![ip] = Append(@, now)]
    /\ RateHistory(ip, now)
    /\ UNCHANGED <<now, tokenVars, serverVars>>

(* ---------------------------- the server ---------------------------- *)

\* validateAddress: a string of 0x and 40 hex digits
validateAddress(address) == address \in Addresses

\* validateFid: Number(fid) is a positive integer
validateFid(fid) == fid.num > 0

\* `${ROOM_NAME_PREFIX}-${fid}`: the number 42 and the string "42" give the
\* same name; a name is written as the number after the prefix
RoomName(fid) == fid.num

\* roomStore.get(roomId) === undefined
NoRoom == [fid |-> NoFid, address |-> NoAddress, roomName |-> 0,
           disabled |-> FALSE, lastActivity |-> -1]

\* roomStore.get(roomId)
StoreGet(store, roomId) == IF roomId \in RoomIds THEN store[roomId] ELSE NoRoom

\* roomStore.set(roomId, ...): a new key goes to the end of the Map's order,
\* a known key keeps its place
OrderAfterSet(store, order, roomId) ==
    IF store[roomId] = NoRoom THEN Append(order, roomId) ELSE order

\* no handler in the slot
IdleReq == [kind |-> "none", pc |-> "idle", resp |-> "none", found |-> "none",
            fid |-> NoFid, address |-> NoAddress, roomId |-> NoRoomId,
            roomData |-> NoRoom, existing |-> "null", role |-> "none"]

\* no sweep running
IdleSweep == [pc |-> "idle", resp |-> "none", cutoff |-> 0, pos |-> 0,
              roomId |-> NoRoomId, roomData |-> NoRoom]

NoOut == [kind |-> "none", error |-> "none", roomId |-> NoRoomId,
          status |-> "none", role |-> "none"]

\* the JSON body {error: message} of onError
ErrorOut(kind, message) == [NoOut EXCEPT !.kind = kind, !.error = message]

\* fetchFromHMS, up to its await: the token the call is sent with
FetchToken(mintOk) ==
    GetValidToken(managementToken, tokenGeneratedAt, mintCount, now, mintOk)

\* the cache as getValidToken leaves it
TokenAfter(r) ==
    /\ managementToken' = r.token
    /\ tokenGeneratedAt' = r.generatedAt
    /\ mintCount' = IF r.minted THEN mintCount + 1 ELSE mintCount
    /\ UNCHANGED tokenCall

\* the state of a call just issued: in flight, or already failed because
\* getValidToken threw
Issued(r) == IF r.threw THEN "fail" ELSE "pending"

\* a request takes the first free slot
Receive(s) ==
    /\ reqs[s] = IdleReq
    /\ \A t \in Slots : t < s => reqs[t] # IdleReq

(* the upstream platform *)

\* the rooms after the platform carried out a call on room id
HmsAfter(call, id) ==
    CASE call = "enable" -> [hms EXCEPT ![id] = "enabled"]
      [] call = "disable" -> [hms EXCEPT ![id] = "disabled"]
      [] call = "create" ->
            \* POST /rooms with the name of an existing room returns that room
            IF hms[id] = "none" THEN [hms EXCEPT ![id] = "enabled"] ELSE hms
      [] OTHER -> hms

\* the platform can carry the call out (a room must exist to be switched)
HmsCan(call, id) == call \in {"enable", "disable"} => hms[id] # "none"

\* the owner's room was disabled upstream: later create-rooms do not follow
\* an earlier one "with no disable in between"
PrevCreateAfter(call, id, ok) ==
    IF ok /\ call = "disable" THEN [prevCreate EXCEPT ![id] = FALSE] ELSE prevCreate

\* the failed sweep calls still standing once the store is `store`: a write
\* to a room's record ends the standing of the room's failed call
KeepFailed(store) ==
    [r \in RoomIds |-> sweepFailed[r] /\ store[r] = roomStore[r]]

\* the platform answers the call a handler waits for
HmsRespond(s) ==
    /\ reqs[s].resp = "pending"
    /\ reqs[s].pc \in {"lookup", "enable", "create", "disable", "list"}
    /\ \E ok \in BOOLEAN :
        /\ ok => HmsCan(reqs[s].pc, reqs[s].roomId)
        /\ hms' = IF ok THEN HmsAfter(reqs[s].pc, reqs[s].roomId) ELSE hms
        /\ reqs' = [reqs EXCEPT ![s].resp = IF ok THEN "ok" ELSE "fail",
                                ![s].found = IF ok /\ reqs[s].pc = "lookup"
                                             THEN hms[reqs[s].roomId] ELSE "none"]
        /\ prevCreate' = PrevCreateAfter(reqs[s].pc, reqs[s].roomId, ok)
    /\ out' = NoOut
    /\ UNCHANGED <<now, tokenVars, rateVars, roomStore, roomOrder, sweeps, init,
                   sweepFailed, retired>>

\* the platform answers the disable call a sweep waits for
HmsRespondSweep(w) ==
    /\ sweeps[w].resp = "pending"
    /\ \E ok \in BOOLEAN :
        /\ ok => HmsCan("disable", sweeps[w].roomId)
        /\ hms' = IF ok THEN HmsAfter("disable", sweeps[w].roomId) ELSE hms
        /\ sweeps' = [sweeps EXCEPT ![w].resp = IF ok THEN "ok" ELSE "fail"]
        /\ prevCreate' = PrevCreateAfter("disable", sweeps[w].roomId, ok)
    /\ out' = NoOut
    /\ UNCHANGED <<now, tokenVars, rateVars, roomStore, roomOrder, reqs, init,
                   sweepFailed, retired>>

\* the platform answers the listing initializeRoomStore waits for
HmsRespondInit ==
    /\ init.resp = "pending"
    /\ \E ok \in BOOLEAN :
        init' = [init EXCEPT !.resp = IF ok THEN "ok" ELSE "fail",
                             !.rooms = IF ok THEN {r \in RoomIds : hms[r] = "enabled"}
                                       ELSE {}]
    /\ out' = NoOut
    /\ UNCHANGED <<now, tokenVars, rateVars, hms, roomStore, roomOrder, reqs,
                   sweeps, prevCreate,
                   sweepFailed, retired>>

(* startup *)

\* a reconciliation that stamps the record with a time before its own
SyncedRoom_Earlier(id, t) ==
    [fid |-> [rep |-> "string", num |-> id], address |-> NoAddress,
     roomName |-> id, disabled |-> FALSE, lastActivity |-> t - 1]

\* the record initializeRoomStore writes for a listed room: the fid is the
\* string the pattern matched, there is no address and no disabled field
SyncedRoom(id, t) ==
    [fid |-> [rep |-> "string", num |-> id], address |-> NoAddress,
     roomName |-> id, disabled |-> FALSE, lastActivity |-> t]

\* the keys the loop of initializeRoomStore adds, in the listing's order
RECURSIVE AppendNew(_, _)
AppendNew(order, ids) ==
    IF ids = {} THEN order
    ELSE LET id == CHOOSE i \in ids : \A j \in ids : i <= j
         IN  AppendNew(Append(order, id), ids \ {id})

\* initializeRoomStore after its await: the loop over the listed rooms, or
\* the catch
initializeRoomStore ==
    /\ init.pc = "list"
    /\ init.resp \in {"ok", "fail"}
    /\ roomStore' = [r \in RoomIds |->
                        IF init.resp = "ok" /\ r \in init.rooms
                        THEN SyncedRoom(r, now) ELSE roomStore[r]]
    /\ roomOrder' = IF init.resp = "ok"
                    THEN AppendNew(roomOrder,
                                   {r \in init.rooms : roomStore[r] = NoRoom})
                    ELSE roomOrder
    /\ init' = [pc |-> "done", resp |-> init.resp, rooms |-> {}]
    /\ out' = NoOut
    /\ sweepFailed' = KeepFailed(roomStore')
    /\ UNCHANGED <<now, tokenVars, rateVars, hms, reqs, sweeps, prevCreate, retired>>

Tick ==
    /\ now < MaxTime
    /\ now' = now + 1
    /\ out' = NoOut
    /\ UNCHANGED <<tokenVars, rateVars, hms, roomStore, roomOrder, reqs, sweeps,
                   init, prevCreate,
                   sweepFailed, retired>>

\* the clock after MaxTime, for the specification that watches the server
\* longer
LateTick ==
    /\ now >= MaxTime
    /\ now < MaxLate
    /\ now' = now + 1
    /\ out' = NoOut
    /\ UNCHANGED <<tokenVars, rateVars, hms, roomStore, roomOrder, reqs, sweeps,
                   init, prevCreate, sweepFailed, retired>>

(* the sweep *)

\* the first entry, from position `from` of the Map's order on, that the loop
\* of checkInactiveRooms disables: not disabled, last active before the
\* cutoff (0: the loop runs to its end)
NextInactive(store, order, from, cutoff) ==
    LET hits == {i \in from..Len(order) :
                    /\ ~store[order[i]].disabled
                    /\ store[order[i]].lastActivity < cutoff}
    IN  IF hits = {} THEN 0 ELSE CHOOSE i \in hits : \A j \in hits : i <= j

\* the loop of checkInactiveRooms from position `from` up to its next await
SweepLoop(w, from, cutoff, store) ==
    LET i == NextInactive(store, roomOrder, from, cutoff)
    IN  IF i = 0
        THEN /\ sweeps' = [sweeps EXCEPT ![w] = IdleSweep]
             /\ UNCHANGED tokenVars
        ELSE \E mintOk \in BOOLEAN :
                /\ TokenAfter(FetchToken(mintOk))
                /\ sweeps' = [sweeps EXCEPT ![w] =
                        [pc |-> "disable", resp |-> Issued(FetchToken(mintOk)),
                         cutoff |-> cutoff, pos |-> i, roomId |-> roomOrder[i],
                         roomData |-> store[roomOrder[i]]]]

\* the timer fires: checkInactiveRooms up to its first await
checkInactiveRooms(w) ==
    /\ sweeps[w] = IdleSweep
    /\ \A v \in Sweeps : v < w => sweeps[v] # IdleSweep
    /\ SweepLoop(w, 1, now - ROOM_TIMEOUT_MS, roomStore)
    /\ out' = NoOut
    /\ UNCHANGED <<now, rateVars, hms, roomStore, roomOrder, reqs, init, prevCreate,
                   sweepFailed, retired>>

\* the record the sweep writes after a successful disableRoom
SweptRoom(roomData, t) == [roomData EXCEPT !.disabled = TRUE, !.lastActivity = t]

\* a sweep that marks the record whatever the platform answered
StoreAfterSweep_Always(w) ==
    [roomStore EXCEPT ![sweeps[w].roomId] = SweptRoom(sweeps[w].roomData, now)]

\* the store after the sweep's await: written on success, left alone on a
\* failure (the catch)
StoreAfterSweep(w) ==
    IF sweeps[w].resp = "ok"
    THEN [roomStore EXCEPT ![sweeps[w].roomId] = SweptRoom(sweeps[w].roomData, now)]
    ELSE roomStore

\* checkInactiveRooms after an await: the write or the catch, then the loop
\* goes on
checkInactiveRoomsResume(w) ==
    /\ sweeps[w].pc = "disable"
    /\ sweeps[w].resp \in {"ok", "fail"}
    /\ roomStore' = StoreAfterSweep(w)
    /\ SweepLoop(w, sweeps[w].pos + 1, sweeps[w].cutoff, StoreAfterSweep(w))
    /\ out' = NoOut
    /\ sweepFailed' = [KeepFailed(roomStore') EXCEPT
                            ![sweeps[w].roomId] = (sweeps[w].resp = "fail")]
    /\ UNCHANGED <<now, rateVars, hms, roomOrder, reqs, init, prevCreate, retired>>

(* GET /rooms *)

\* GET /rooms up to its await; a rate-limit throw lands in the handler's own
\* catch, which answers with an empty list
GetRooms(s, ip) ==
    /\ Receive(s)
    /\ rateLimit' = CheckRateLimit(rateLimit, ip, now)
    /\ IF RateLimited(rateLimit, ip, now)
       THEN /\ out' = [NoOut EXCEPT !.kind = "rooms", !.status = "empty"]
            /\ UNCHANGED <<reqs, tokenVars>>
       ELSE \E mintOk \in BOOLEAN :
            /\ TokenAfter(FetchToken(mintOk))
            /\ reqs' = [reqs EXCEPT ![s] =
                    [IdleReq EXCEPT !.kind = "rooms", !.pc = "list",
                                    !.resp = Issued(FetchToken(mintOk))]]
            /\ out' = NoOut
    /\ UNCHANGED <<now, rateHistory, hms, roomStore, roomOrder, sweeps, init,
                   prevCreate,
                   sweepFailed, retired>>

\* GET /rooms after its await: the listing, or the catch's empty list
GetRoomsResume(s) ==
    /\ reqs[s].kind = "rooms"
    /\ reqs[s].resp \in {"ok", "fail"}
    /\ out' = [NoOut EXCEPT !.kind = "rooms",
                            !.status = IF reqs[s].resp = "ok" THEN "listed"
                                       ELSE "empty"]
    /\ reqs' = [reqs EXCEPT ![s] = IdleReq]
    /\ UNCHANGED <<now, tokenVars, rateVars, hms, roomStore, roomOrder, sweeps,
                   init, prevCreate,
                   sweepFailed, retired>>

(* POST /create-room *)

\* the throw of create-room's synchronous checks ("none": they pass)
CreateRoomError(ip, address, fid) ==
    IF RateLimited(rateLimit, ip, now) THEN "Rate limit exceeded"
    ELSE IF address = NoAddress \/ fid = NoFid THEN "Missing required fields"
    ELSE IF ~validateAddress(address) THEN "Invalid ETH address format"
    ELSE IF ~validateFid(fid) THEN "Invalid FID format"
    ELSE "none"

\* create-room up to `await fetchUsername(fid)`
PostCreateRoom(s, ip, address, fid) ==
    /\ Receive(s)
    /\ rateLimit' = CheckRateLimit(rateLimit, ip, now)
    /\ IF CreateRoomError(ip, address, fid) # "none"
       THEN /\ out' = ErrorOut("create", CreateRoomError(ip, address, fid))
            /\ UNCHANGED reqs
       ELSE /\ reqs' = [reqs EXCEPT ![s] =
                    [IdleReq EXCEPT !.kind = "create", !.pc = "username",
                                    !.fid = fid, !.address = address,
                                    !.roomId = RoomName(fid)]]
            /\ out' = NoOut
    /\ UNCHANGED <<now, tokenVars, rateHistory, hms, roomStore, roomOrder, sweeps,
                   init, prevCreate,
                   sweepFailed, retired>>

\* fetchUsername returned (a name or null, never a throw): the room name is
\* built and findExistingRoom sends its lookup
CreateRoomLookup(s) ==
    /\ reqs[s].kind = "create"
    /\ reqs[s].pc = "username"
    /\ \E mintOk \in BOOLEAN :
        /\ TokenAfter(FetchToken(mintOk))
        /\ reqs' = [reqs EXCEPT ![s].pc = "lookup",
                                ![s].resp = Issued(FetchToken(mintOk))]
    /\ out' = NoOut
    /\ UNCHANGED <<now, rateVars, hms, roomStore, roomOrder, sweeps, init, prevCreate,
                   sweepFailed, retired>>

\* findExistingRoom: the room of that name as the platform listed it, null
\* when there is none and null when the lookup failed (the catch)
findExistingRoom(resp, found) ==
    IF resp = "ok" /\ found # "none" THEN found ELSE "null"

\* create-room after findExistingRoom: enable the room found disabled, keep
\* the room found enabled and ask for its code, or create the room
CreateRoomExisting(s) ==
    /\ reqs[s].kind = "create"
    /\ reqs[s].pc = "lookup"
    /\ reqs[s].resp \in {"ok", "fail"}
    /\ \E mintOk \in BOOLEAN :
        LET existingRoom == findExistingRoom(reqs[s].resp, reqs[s].found)
        IN  /\ TokenAfter(FetchToken(mintOk))
            /\ reqs' = [reqs EXCEPT
                    ![s].existing = existingRoom,
                    ![s].pc = CASE existingRoom = "disabled" -> "enable"
                                [] existingRoom = "enabled" -> "code"
                                [] OTHER -> "create",
                    ![s].resp = Issued(FetchToken(mintOk))]
    /\ out' = NoOut
    /\ UNCHANGED <<now, rateVars, hms, roomStore, roomOrder, sweeps, init, prevCreate,
                   sweepFailed, retired>>

\* create-room after enableRoom or POST /rooms: a failure is thrown to the
\* client, a success asks for the streamer code
CreateRoomCode(s) ==
    /\ reqs[s].kind = "create"
    /\ reqs[s].pc \in {"enable", "create"}
    /\ reqs[s].resp \in {"ok", "fail"}
    /\ IF reqs[s].resp = "fail"
       THEN /\ out' = ErrorOut("create", "HMS API error")
            /\ reqs' = [reqs EXCEPT ![s] = IdleReq]
            /\ UNCHANGED tokenVars
       ELSE \E mintOk \in BOOLEAN :
            /\ TokenAfter(FetchToken(mintOk))
            /\ reqs' = [reqs EXCEPT ![s].pc = "code",
                                    ![s].resp = Issued(FetchToken(mintOk))]
            /\ out' = NoOut
    /\ UNCHANGED <<now, rateVars, hms, roomStore, roomOrder, sweeps, init, prevCreate,
                   sweepFailed, retired>>

\* the record create-room stores: no disabled field
CreatedRoom(fid, address, t) ==
    [fid |-> fid, address |-> address, roomName |-> RoomName(fid),
     disabled |-> FALSE, lastActivity |-> t]

\* the status create-room reports
CreateStatus(existing) ==
    CASE existing = "enabled" -> "existing"
      [] existing = "disabled" -> "reenabled"
      [] OTHER -> "created"

\* create-room after createRoomCode: the platform answers with the code and
\* the room is stored, or the call fails and the throw reaches the client
CreateRoomStore(s) ==
    /\ reqs[s].kind = "create"
    /\ reqs[s].pc = "code"
    /\ \E ok \in (IF reqs[s].resp = "pending" THEN BOOLEAN ELSE {FALSE}) :
        IF ok
        THEN /\ roomStore' = [roomStore EXCEPT ![reqs[s].roomId] =
                    CreatedRoom(reqs[s].fid, reqs[s].address, now)]
             /\ roomOrder' = OrderAfterSet(roomStore, roomOrder, reqs[s].roomId)
             /\ out' = [NoOut EXCEPT !.kind = "create", !.roomId = reqs[s].roomId,
                                     !.status = CreateStatus(reqs[s].existing)]
             /\ prevCreate' = [prevCreate EXCEPT ![reqs[s].roomId] = TRUE]
             /\ retired' = [retired EXCEPT ![reqs[s].roomId] = FALSE]
        ELSE /\ out' = ErrorOut("create", "HMS API error")
             /\ UNCHANGED <<roomStore, roomOrder, prevCreate, retired>>
    /\ reqs' = [reqs EXCEPT ![s] = IdleReq]
    /\ sweepFailed' = KeepFailed(roomStore')
    /\ UNCHANGED <<now, tokenVars, rateVars, hms, sweeps, init>>

(* POST /join-room *)

\* join-room without the look-up of the room in the store
JoinRoomError_NoStoreCheck(ip, roomId, fid, address) ==
    IF RateLimited(rateLimit, ip, now) THEN "Rate limit exceeded"
    ELSE IF roomId = NoRoomId \/ fid = NoFid THEN "Missing required fields"
    ELSE IF ~validateFid(fid) THEN "Invalid FID format"
    ELSE IF address # NoAddress /\ ~validateAddress(address)
         THEN "Invalid ETH address format"
    ELSE "none"

\* the throw of join-room's synchronous checks ("none": they pass)
JoinRoomError(ip, roomId, fid, address) ==
    IF RateLimited(rateLimit, ip, now) THEN "Rate limit exceeded"
    ELSE IF roomId = NoRoomId \/ fid = NoFid THEN "Missing required fields"
    ELSE IF ~validateFid(fid) THEN "Invalid FID format"
    ELSE IF address # NoAddress /\ ~validateAddress(address)
         THEN "Invalid ETH address format"
    ELSE IF StoreGet(roomStore, roomId) = NoRoom THEN "Room not found"
    ELSE "none"

\* line 408: roomData.fid === fid && (!address || roomData.address === address)
IsCreator(roomData, fid, address) ==
    roomData.fid = fid /\ (address = NoAddress \/ roomData.address = address)

\* line 409
Role(isCreator) == IF isCreator THEN "fariscope-streamer" ELSE "fariscope-viewer"

\* join-room up to `await createRoomCode(roomId, role)`
PostJoinRoom(s, ip, roomId, fid, address) ==
    /\ Receive(s)
    /\ rateLimit' = CheckRateLimit(rateLimit, ip, now)
    /\ IF JoinRoomError(ip, roomId, fid, address) # "none"
       THEN /\ out' = ErrorOut("join", JoinRoomError(ip, roomId, fid, address))
            /\ UNCHANGED <<reqs, tokenVars>>
       ELSE \E mintOk \in BOOLEAN :
            /\ TokenAfter(FetchToken(mintOk))
            /\ reqs' = [reqs EXCEPT ![s] =
                    [IdleReq EXCEPT
                        !.kind = "join", !.pc = "code",
                        !.resp = Issued(FetchToken(mintOk)),
                        !.fid = fid, !.address = address, !.roomId = roomId,
                        !.roomData = StoreGet(roomStore, roomId),
                        !.role = Role(IsCreator(StoreGet(roomStore, roomId),
                                                fid, address))]]
            /\ out' = NoOut
    /\ UNCHANGED <<now, rateHistory, hms, roomStore, roomOrder, sweeps, init,
                   prevCreate,
                   sweepFailed, retired>>

\* the record join-room writes back: the one it read, with a new lastActivity
JoinedRoom(roomData, t) == [roomData EXCEPT !.lastActivity = t]

\* join-room after createRoomCode: the record read before the await is
\* written back with a new lastActivity, or the throw reaches the client
JoinRoomStore(s) ==
    /\ reqs[s].kind = "join"
    /\ reqs[s].pc = "code"
    /\ \E ok \in (IF reqs[s].resp = "pending" THEN BOOLEAN ELSE {FALSE}) :
        IF ok
        THEN /\ roomStore' = [roomStore EXCEPT ![reqs[s].roomId] =
                    JoinedRoom(reqs[s].roomData, now)]
             /\ out' = [NoOut EXCEPT !.kind = "join", !.roomId = reqs[s].roomId,
                                     !.status = "joined", !.role = reqs[s].role]
        ELSE /\ out' = ErrorOut("join", "HMS API error")
             /\ UNCHANGED roomStore
    /\ reqs' = [reqs EXCEPT ![s] = IdleReq]
    /\ sweepFailed' = KeepFailed(roomStore')
    /\ UNCHANGED <<now, tokenVars, rateVars, hms, roomOrder, sweeps, init, prevCreate,
                   retired>>

(* POST /disable-room *)

\* line 454: roomData.fid !== fid || roomData.address !== address
NotCreator_Both(roomData, fid, address) ==
    roomData.fid # fid /\ roomData.address # address

NotCreator(roomData, fid, address) ==
    roomData.fid # fid \/ roomData.address # address

\* the throw of disable-room's synchronous checks ("none": they pass)
DisableRoomError(ip, roomId, address, fid) ==
    IF RateLimited(rateLimit, ip, now) THEN "Rate limit exceeded"
    ELSE IF roomId = NoRoomId \/ address = NoAddress \/ fid = NoFid
         THEN "Missing required fields"
    ELSE IF ~validateAddress(address) THEN "Invalid ETH address format"
    ELSE IF ~validateFid(fid) THEN "Invalid FID format"
    ELSE IF StoreGet(roomStore, roomId) = NoRoom THEN "Room not found"
    ELSE IF NotCreator(StoreGet(roomStore, roomId), fid, address)
         THEN "Only the room creator can disable this room"
    ELSE "none"

\* disable-room up to `await disableRoom(roomId)`
PostDisableRoom(s, ip, roomId, address, fid) ==
    /\ Receive(s)
    /\ rateLimit' = CheckRateLimit(rateLimit, ip, now)
    /\ IF DisableRoomError(ip, roomId, address, fid) # "none"
       THEN /\ out' = ErrorOut("disable", DisableRoomError(ip, roomId, address, fid))
            /\ UNCHANGED <<reqs, tokenVars>>
       ELSE \E mintOk \in BOOLEAN :
            /\ TokenAfter(FetchToken(mintOk))
            /\ reqs' = [reqs EXCEPT ![s] =
                    [IdleReq EXCEPT
                        !.kind = "disable", !.pc = "disable",
                        !.resp = Issued(FetchToken(mintOk)),
                        !.fid = fid, !.address = address, !.roomId = roomId,
                        !.roomData = StoreGet(roomStore, roomId)]]
            /\ out' = NoOut
    /\ UNCHANGED <<now, rateHistory, hms, roomStore, roomOrder, sweeps, init,
                   prevCreate,
                   sweepFailed, retired>>

\* the record disable-room writes after a successful disableRoom
DisabledRoom(roomData, t) == [roomData EXCEPT !.disabled = TRUE, !.lastActivity = t]

\* disable-room after its await
DisableRoomStore(s) ==
    /\ reqs[s].kind = "disable"
    /\ reqs[s].resp \in {"ok", "fail"}
    /\ IF reqs[s].resp = "ok"
       THEN /\ roomStore' = [roomStore EXCEPT ![reqs[s].roomId] =
                    DisabledRoom(reqs[s].roomData, now)]
            /\ out' = [NoOut EXCEPT !.kind = "disable", !.roomId = reqs[s].roomId,
                                    !.status = "success"]
       ELSE /\ out' = ErrorOut("disable", "HMS API error")
            /\ UNCHANGED roomStore
    /\ reqs' = [reqs EXCEPT ![s] = IdleReq]
    /\ sweepFailed' = KeepFailed(roomStore')
    /\ retired' = [retired EXCEPT ![reqs[s].roomId] = @ \/ reqs[s].resp = "ok"]
    /\ UNCHANGED <<now, tokenVars, rateVars, hms, roomOrder, sweeps, init, prevCreate>>

(* -------------------------- specifications -------------------------- *)

\* the state in which SpecToken and SpecRate leave the server
ServerInit ==
    /\ hms = [r \in RoomIds |-> "none"]
    /\ roomStore = [r \in RoomIds |-> NoRoom]
    /\ roomOrder = <<>>
    /\ reqs = [s \in Slots |-> IdleReq]
    /\ sweeps = [w \in Sweeps |-> IdleSweep]
    /\ init = [pc |-> "done", resp |-> "none", rooms |-> {}]
    /\ out = NoOut
    /\ prevCreate = [r \in RoomIds |-> FALSE]
    /\ sweepFailed = [r \in RoomIds |-> FALSE]
    /\ retired = [r \in RoomIds |-> FALSE]

\* the server once the module's top level has run (lines 476-495): listening,
\* the first token minted, initializeRoomStore waiting for its listing, the
\* sweep timer set; the platform holds what earlier runs left there
Init ==
    /\ now = 0
    /\ managementToken = generateManagementToken(0)
    /\ tokenGeneratedAt = 0
    /\ mintCount = 1
    /\ tokenCall = NoTokenCall
    /\ RateInit
    /\ hms \in [RoomIds -> {"none", "enabled", "disabled"}]
    /\ roomStore = [r \in RoomIds |-> NoRoom]
    /\ roomOrder = <<>>
    /\ reqs = [s \in Slots |-> IdleReq]
    /\ sweeps = [w \in Sweeps |-> IdleSweep]
    /\ init = [pc |-> "list", resp |-> "pending", rooms |-> {}]
    /\ out = NoOut
    /\ prevCreate = [r \in RoomIds |-> FALSE]
    /\ sweepFailed = [r \in RoomIds |-> FALSE]
    /\ retired = [r \in RoomIds |-> FALSE]

\* a well-formed fid of the first owner, for the bodies that fail a check
\* other than the fid's
Fid1 == [rep |-> "number", num |-> 1]

\* the create-room bodies for the owners of `rooms`: the owner's address with
\* the fid as a number or as a string, and one body for each way of failing
\* the handler's checks
CreateBodies(rooms) ==
    {b \in [address : {"0xA"}, fid : FidValues] : RoomName(b.fid) \in rooms}
    \cup {[address |-> NoAddress, fid |-> Fid1],
          [address |-> "0xA", fid |-> NoFid],
          [address |-> BadAddress, fid |-> Fid1],
          [address |-> "0xA", fid |-> BadFid]}

\* the join-room bodies for `rooms`: any fid, with or without an address
JoinBodies(rooms) ==
    [roomId : rooms, fid : FidValues, address : Addresses \cup {NoAddress}]
    \cup {[roomId |-> NoRoomId, fid |-> Fid1, address |-> NoAddress],
          [roomId |-> 1, fid |-> NoFid, address |-> NoAddress],
          [roomId |-> 1, fid |-> BadFid, address |-> NoAddress],
          [roomId |-> 1, fid |-> Fid1, address |-> BadAddress],
          [roomId |-> UnknownRoomId, fid |-> Fid1, address |-> NoAddress]}

\* the disable-room bodies for `rooms`: any fid and address
DisableBodies(rooms) ==
    [roomId : rooms, address : Addresses, fid : FidValues]
    \cup {[roomId |-> NoRoomId, address |-> "0xA", fid |-> Fid1],
          [roomId |-> 1, address |-> NoAddress, fid |-> Fid1],
          [roomId |-> 1, address |-> "0xA", fid |-> NoFid],
          [roomId |-> 1, address |-> BadAddress, fid |-> Fid1],
          [roomId |-> 1, address |-> "0xA", fid |-> BadFid],
          [roomId |-> UnknownRoomId, address |-> "0xA", fid |-> Fid1]}

\* startup reconciliation goes on
Startup ==
    \/ HmsRespondInit
    \/ initializeRoomStore

\* the sweep timer fires
SweepStart == \E w \in Sweeps : checkInactiveRooms(w)

\* a sweep in flight goes on
SweepProgress ==
    \/ \E w \in Sweeps : HmsRespondSweep(w)
    \/ \E w \in Sweeps : checkInactiveRoomsResume(w)

\* a GET /rooms request arrives
ListArrival == \E s \in Slots, ip \in ServerIps : GetRooms(s, ip)

\* a request about one of `rooms` arrives
Arrival(rooms) ==
    \/ \E s \in Slots, ip \in ServerIps, body \in CreateBodies(rooms) :
            PostCreateRoom(s, ip, body.address, body.fid)
    \/ \E s \in Slots, ip \in ServerIps, body \in JoinBodies(rooms) :
            PostJoinRoom(s, ip, body.roomId, body.fid, body.address)
    \/ \E s \in Slots, ip \in ServerIps, body \in DisableBodies(rooms) :
            PostDisableRoom(s, ip, body.roomId, body.address, body.fid)

\* a GET /rooms handler in flight goes on
ListProgress == \E s \in Slots : GetRoomsResume(s)

\* a handler in flight goes on
Progress ==
    \/ \E s \in Slots : HmsRespond(s)
    \/ \E s \in Slots : CreateRoomLookup(s)
    \/ \E s \in Slots : CreateRoomExisting(s)
    \/ \E s \in Slots : CreateRoomCode(s)
    \/ \E s \in Slots : CreateRoomStore(s)
    \/ \E s \in Slots : JoinRoomStore(s)
    \/ \E s \in Slots : DisableRoomStore(s)

\* the whole server: requests of every owner and sweeps, interleaved at
\* every await
Next ==
    \/ Tick
    \/ Startup
    \/ SweepStart
    \/ SweepProgress
    \/ ListArrival
    \/ ListProgress
    \/ Arrival(RoomIds)
    \/ Progress

Spec == Init /\ [][Next]_vars

\* no handler and no sweep is in flight
Quiet ==
    /\ \A s \in Slots : reqs[s] = IdleReq
    /\ \A w \in Sweeps : sweeps[w] = IdleSweep

\* the server with a client that waits for each answer before its next
\* request, and sweeps that run between requests
NextSeq ==
    \/ Tick
    \/ Startup
    \/ Quiet /\ SweepStart
    \/ SweepProgress
    \/ Quiet /\ ListArrival
    \/ ListProgress
    \/ Quiet /\ Arrival({1})
    \/ Progress

\* the platform holds no room of another owner than the first
InitOneRoom == Init /\ \A r \in RoomIds : r # 1 => hms[r] = "none"

SpecSeq == InitOneRoom /\ [][NextSeq]_vars

\* SpecSeq watched for one more unit of time
NextLate ==
    \/ NextSeq
    \/ LateTick

SpecLate == InitOneRoom /\ [][NextLate]_vars

\* the server after startup with the requests about one owner's room, two of
\* them in flight at once, and the sweep
NextRace ==
    \/ Tick
    \/ SweepStart
    \/ SweepProgress
    \/ Arrival({1})
    \/ Progress

\* the server once startup is over: the store holds what the reconciliation
\* wrote (a record for each enabled room, none if the listing failed)
InitRun ==
    /\ now = 0
    /\ managementToken = generateManagementToken(0)
    /\ tokenGeneratedAt = 0
    /\ mintCount = 1
    /\ tokenCall = NoTokenCall
    /\ RateInit
    /\ hms \in [RoomIds -> {"none", "enabled", "disabled"}]
    /\ \E listed \in BOOLEAN :
        /\ roomStore = [r \in RoomIds |->
                IF listed /\ hms[r] = "enabled" THEN SyncedRoom(r, 0) ELSE NoRoom]
        /\ roomOrder = AppendNew(<<>>, {r \in RoomIds : listed /\ hms[r] = "enabled"})
    /\ reqs = [s \in Slots |-> IdleReq]
    /\ sweeps = [w \in Sweeps |-> IdleSweep]
    /\ init = [pc |-> "done", resp |-> "none", rooms |-> {}]
    /\ out = NoOut
    /\ prevCreate = [r \in RoomIds |-> FALSE]
    /\ sweepFailed = [r \in RoomIds |-> FALSE]
    /\ retired = [r \in RoomIds |-> FALSE]

InitRunOneRoom == InitRun /\ \A r \in RoomIds : r # 1 => hms[r] = "none"

SpecRace == InitRunOneRoom /\ [][NextRace]_vars

\* the requests of one owner (create-room, then disable-room, with the
\* owner's address) and the join-room request of a viewer behind another
\* client key
OwnerArrival ==
    \/ \E s \in Slots : PostCreateRoom(s, "unknown", "0xA", Fid1)
    \/ \E s \in Slots : PostDisableRoom(s, "unknown", 1, "0xA", Fid1)
    \/ \E s \in Slots : PostJoinRoom(s, "10.0.0.1", 1, Fid1, NoAddress)

\* the server after startup with the owner's and the viewer's requests, two
\* in flight at once, and the sweep
NextOwner ==
    \/ Tick
    \/ SweepStart
    \/ SweepProgress
    \/ OwnerArrival
    \/ Progress

\* the platform holds no room yet
InitNoRoom == InitRun /\ \A r \in RoomIds : hms[r] = "none"

SpecOwner == InitNoRoom /\ [][NextOwner]_vars

\* the room whose upstream disable call never completes in SpecHang
HungRoom == 1

\* the platform answers the disable call a sweep waits for, unless the room
\* is the one whose calls hang
HangRespond(w) ==
    /\ sweeps[w].roomId # HungRoom
    /\ HmsRespondSweep(w)

HangRespondOk(w) == HangRespond(w) /\ sweeps'[w].resp = "ok"

\* the timer fires while the last run still waits for the call that hangs: a
\* new run starts; the old one never resumes and is followed no longer
checkInactiveRoomsAgain(w) ==
    /\ sweeps[w].pc = "disable"
    /\ sweeps[w].resp = "pending"
    /\ sweeps[w].roomId = HungRoom
    /\ SweepLoop(w, 1, now - ROOM_TIMEOUT_MS, roomStore)
    /\ out' = NoOut
    /\ UNCHANGED <<now, rateVars, hms, roomStore, roomOrder, reqs, init, prevCreate,
                   sweepFailed, retired>>

\* the timer of setInterval
SweepTimer ==
    \/ \E w \in Sweeps : checkInactiveRooms(w)
    \/ \E w \in Sweeps : checkInactiveRoomsAgain(w)

\* a run of the sweep goes on, the platform answering every call but the
\* hung room's
HangProgress ==
    \/ \E w \in Sweeps : HangRespond(w)
    \/ \E w \in Sweeps : checkInactiveRoomsResume(w)

\* the store holds a record for every room, all enabled on the platform
InitHang ==
    /\ InitRun
    /\ \A r \in RoomIds : hms[r] = "enabled" /\ roomStore[r] # NoRoom

\* a join-room request arrives
JoinArrival ==
    \E ip \in ServerIps, body \in JoinBodies(RoomIds) :
        PostJoinRoom(1, ip, body.roomId, body.fid, body.address)

\* the server with the rooms earlier runs left on the platform, the sweep,
\* and join-room requests one at a time
NextSweep ==
    \/ Tick
    \/ Startup
    \/ SweepStart
    \/ SweepProgress
    \/ JoinArrival
    \/ JoinRoomStore(1)

SpecSweep == Init /\ [][NextSweep]_vars

\* the sweep and join-room requests while every disable call for HungRoom
\* hangs; the timer keeps firing, a call the platform answers is answered,
\* and infinitely many answers are not all failures
NextHang ==
    \/ Tick
    \/ SweepTimer
    \/ HangProgress
    \/ JoinArrival
    \/ JoinRoomStore(1)

SpecHang ==
    /\ InitHang
    /\ [][NextHang]_vars
    /\ WF_vars(Tick)
    /\ WF_vars(SweepTimer)
    /\ WF_vars(\E w \in Sweeps : checkInactiveRoomsResume(w))
    /\ WF_vars(\E w \in Sweeps : HangRespond(w))
    /\ SF_vars(\E w \in Sweeps : HangRespondOk(w))
    /\ WF_vars(JoinRoomStore(1))

\* a join-room request of a viewer arrives
ViewerArrival ==
    \E s \in Slots, ip \in ServerIps, r \in RoomIds :
        PostJoinRoom(s, ip, r, Fid1, NoAddress)

\* the server watched until its token is stale: join-room requests, two in
\* flight at once, and the sweep, every one of them calling the platform
NextRefresh ==
    \/ Tick
    \/ LateTick
    \/ SweepStart
    \/ SweepProgress
    \/ ViewerArrival
    \/ \E s \in Slots : JoinRoomStore(s)

SpecRefresh == InitHang /\ [][NextRefresh]_vars

InitToken ==
    /\ now = 0
    /\ TokenInit
    /\ RateInit
    /\ ServerInit

NextToken ==
    \/ generateInitialToken
    \/ getValidToken
    \/ ClockTick

SpecToken == InitToken /\ [][NextToken]_vars

InitRate ==
    /\ now = 0
    /\ TokenInit
    /\ RateInit
    /\ ServerInit

NextRate ==
    \/ \E ip \in Ips : checkRateLimit(ip)
    \/ ClockTick

SpecRate == InitRate /\ [][NextRate]_vars


(* ---------------------- claims: rate limiter ------------------------ *)

\* the requests of key k that fall in the window [s, s + window] (both ends
\* counted: the reading that admits the fewest request patterns)
InWindow(k, s) ==
    {i \in 1..Len(requestLog[k]) :
        s <= requestLog[k][i] /\ requestLog[k][i] <= s + RATE_LIMIT_WINDOW_MS}

WithinQuota(k) ==
    \A s \in 0..MaxClock : Cardinality(InWindow(k, s)) <= MAX_REQUESTS_PER_WINDOW

\* C3: a client key that never makes more than MAX_REQUESTS_PER_WINDOW
\* requests inside any one window of length RATE_LIMIT_WINDOW_MS has every
\* checkRateLimit call admitted.
C3_Claim ==
    (rateCall.ip # "none" /\ WithinQuota(rateCall.ip)) => rateCall.admitted

\* C4: a request that arrives more than the window duration after the start
\* of the key's current window (the time its entry was created) resets the
\* count to 1 and is admitted, whenever the most recent request was.
C4_Claim ==
    (/\ rateCall.ip # "none"
     /\ rateCall.startBefore >= 0
     /\ rateCall.at > rateCall.startBefore + RATE_LIMIT_WINDOW_MS)
    => (rateCall.admitted /\ rateLimit[rateCall.ip].count = 1)

(* -------------------- claims: credential manager -------------------- *)

\* C5: when minting fails inside getValidToken and a token was minted
\* earlier, that token is returned and the cache (token and issuance time) is
\* unchanged; the call throws only if no token has ever been minted.
C5_StaleTokenOnMintFailure ==
    (tokenCall.op = "getValidToken" /\ tokenCall.attempted /\ ~tokenCall.minted)
    => /\ tokenCall.everMinted =>
            /\ ~tokenCall.threw
            /\ tokenCall.result # NoToken
            /\ tokenCall.result = tokenCall.tokenBefore
            /\ managementToken = tokenCall.tokenBefore
            /\ tokenGeneratedAt = tokenCall.generatedBefore
       /\ tokenCall.threw <=> ~tokenCall.everMinted

\* a mint failed while an earlier token was cached, and the call returned it
C5_Witness ==
    /\ tokenCall.op = "getValidToken"
    /\ tokenCall.attempted /\ ~tokenCall.minted
    /\ tokenCall.everMinted
    /\ tokenCall.result = managementToken
    /\ managementToken # NoToken

\* C6: getValidToken mints only when no token is cached or the cached token
\* is strictly older than TOKEN_VALIDITY_DURATION; otherwise it returns the
\* cached token and leaves the cache alone; after a successful mint the
\* issuance time is the time of the mint.
C6_MintOnlyWhenStale ==
    /\ tokenCall.op = "getValidToken" =>
        IF \/ tokenCall.tokenBefore = NoToken
           \/ tokenCall.at - tokenCall.generatedBefore > TOKEN_VALIDITY_DURATION
        THEN tokenCall.attempted
        ELSE /\ ~tokenCall.attempted /\ ~tokenCall.minted /\ ~tokenCall.threw
             /\ tokenCall.result = tokenCall.tokenBefore
             /\ managementToken = tokenCall.tokenBefore
             /\ tokenGeneratedAt = tokenCall.generatedBefore
    /\ tokenCall.minted =>
        /\ tokenGeneratedAt = tokenCall.at
        /\ managementToken = tokenCall.result
        /\ tokenCall.result # tokenCall.tokenBefore
        /\ tokenCall.result # NoToken

\* a call made when the cached token's age is exactly the validity duration
\* returned the cached token without minting
C6_Witness ==
    /\ tokenCall.op = "getValidToken"
    /\ tokenCall.tokenBefore # NoToken
    /\ tokenCall.at - tokenCall.generatedBefore = TOKEN_VALIDITY_DURATION
    /\ ~tokenCall.attempted
    /\ tokenCall.result = tokenCall.tokenBefore

(* -------------------------- claims: sweep --------------------------- *)

\* a record the sweep disables at the cutoff
Idle(rec, cutoff) == rec # NoRoom /\ ~rec.disabled /\ rec.lastActivity < cutoff

\* after a step of run w that walked the store from position `from`: the run
\* stopped at the first idle record with the disable call for it issued, no
\* idle record before it passed over, or it ended with no idle record left
NoIdleSkipped(w, from, cutoff) ==
    LET idle == {i \in from..Len(roomOrder') :
                    Idle(roomStore'[roomOrder'[i]], cutoff)}
    IN  IF idle = {}
        THEN sweeps'[w] = IdleSweep
        ELSE /\ sweeps'[w].pc = "disable"
             /\ sweeps'[w].resp = "pending"
             /\ sweeps'[w].pos \in idle
             /\ \A i \in idle : sweeps'[w].pos <= i
             /\ sweeps'[w].roomId = roomOrder'[sweeps'[w].pos]

\* C1: the sweep marks a record disabled only when its upstream disable call
\* for the room has returned success; when the call fails the store is left
\* as it is; and every run of the sweep issues the disable call for each
\* non-disabled record older than the cutoff that it walks over, a record
\* whose earlier call failed included.
C1_SweepDisablesOnSuccessOnly ==
    [][/\ \A w \in Sweeps :
            /\ checkInactiveRooms(w) => NoIdleSkipped(w, 1, now - ROOM_TIMEOUT_MS)
            /\ checkInactiveRoomsResume(w) =>
                /\ sweeps[w].resp = "fail" => roomStore' = roomStore
                /\ sweeps[w].resp = "ok" =>
                    /\ roomStore'[sweeps[w].roomId].disabled
                    /\ \A r \in RoomIds \ {sweeps[w].roomId} :
                            roomStore'[r] = roomStore[r]
                /\ NoIdleSkipped(w, sweeps[w].pos + 1, sweeps[w].cutoff)
       /\ \A r \in RoomIds :
            (roomStore[r] # NoRoom /\ ~roomStore[r].disabled /\ roomStore'[r].disabled)
            => \E w \in Sweeps : /\ sweeps[w].pc = "disable"
                                 /\ sweeps[w].roomId = r
                                 /\ sweeps[w].resp = "ok"
                                 /\ sweeps'[w] # sweeps[w]
      ]_vars

\* a run of the sweep has issued the disable call again for a room whose
\* earlier call failed and whose record stayed as it was, not disabled
C1_Witness ==
    \E w \in Sweeps :
        /\ sweeps[w].pc = "disable"
        /\ sweeps[w].resp = "pending"
        /\ sweepFailed[sweeps[w].roomId]
        /\ ~roomStore[sweeps[w].roomId].disabled

(* ------------------- claims: the store under races ------------------ *)

\* C2: a record marked disabled becomes non-disabled again only by the
\* store write of a create-room request for that room's owner.
C2_DisabledStaysDisabled ==
    [][\A r \in RoomIds :
        (roomStore[r].disabled /\ ~roomStore'[r].disabled)
        => \E s \in Slots : /\ reqs[s].kind = "create"
                            /\ reqs[s].pc = "code"
                            /\ reqs[s].roomId = r
                            /\ reqs'[s] = IdleReq
      ]_vars

(* ----------------------- claims: disable-room ----------------------- *)

\* the request presents another identity or another address than the record's
NotOwner(rec, body) ==
    rec.fid.num # body.fid.num \/ rec.address # body.address

\* the step answered a disable-room request or left its handler in flight
\* (every arrival of a disable-room request is such a step)
DisableStep ==
    \/ out'.kind = "disable"
    \/ \E s \in Slots : reqs[s] = IdleReq /\ reqs'[s].kind = "disable"

\* C7: a disable-room request for a room in the store that presents another
\* identity or another address than the record's is answered with an error,
\* leaves no handler waiting on an upstream call, and leaves the store and
\* the platform's rooms as they are.
C7_NonOwnerDisableRejected ==
    [][DisableStep =>
        \A body \in DisableBodies(RoomIds) :
            (/\ StoreGet(roomStore, body.roomId) # NoRoom
             /\ NotOwner(StoreGet(roomStore, body.roomId), body)
             /\ \E s \in Slots, ip \in ServerIps :
                    PostDisableRoom(s, ip, body.roomId, body.address, body.fid))
            => /\ out'.kind = "disable"
               /\ out'.error # "none"
               /\ reqs' = reqs
               /\ roomStore' = roomStore
               /\ hms' = hms
      ]_vars

\* a disable-room request for a stored room was refused by the owner check
C7_Witness ==
    /\ out.kind = "disable"
    /\ out.error = "Only the room creator can disable this room"
    /\ \E r \in RoomIds : roomStore[r] # NoRoom /\ ~roomStore[r].disabled
    /\ \A s \in Slots : reqs[s] = IdleReq

(* ------------------------ claims: join-room ------------------------- *)

\* C8: a join-room request for a room in the store is given the creator
\* role exactly when its identity is the record's and it supplies no
\* address or the record's address; otherwise the viewer role.
C8_CreatorRoleIff ==
    \A s \in Slots :
        reqs[s].kind = "join" =>
            /\ reqs[s].role \in {"fariscope-streamer", "fariscope-viewer"}
            /\ reqs[s].role = "fariscope-streamer" <=>
                    /\ reqs[s].roomData.fid.num = reqs[s].fid.num
                    /\ \/ reqs[s].address = NoAddress
                       \/ reqs[s].roomData.address = reqs[s].address

(* ----------------------- claims: create-room ------------------------ *)

\* C9: a create-room request calls the platform's room creation only when
\* no earlier create-room for the owner has returned since the room was last
\* disabled, and never for a room that exists disabled (that room is enabled
\* instead); a repeated request reports the existing room.
C9_CreateOnce ==
    \A s \in Slots :
        (reqs[s].kind = "create" /\ reqs[s].pc = "create") =>
            /\ ~prevCreate[reqs[s].roomId]
            /\ hms[reqs[s].roomId] # "disabled"

\* C10: when no request and no sweep is in flight, a record with disabled
\* true belongs to a room that is not enabled on the platform.
C10_DisabledMeansNotEnabled ==
    (Quiet /\ init.pc = "done") =>
        \A r \in RoomIds :
            (roomStore[r] # NoRoom /\ roomStore[r].disabled) => hms[r] # "enabled"

(* ------------------- claims: disabled records ----------------------- *)

\* the step is the store write (or the throw) that ends a join-room handler
JoinEnds == \E s \in Slots :
    reqs[s].kind = "join" /\ reqs[s].pc = "code" /\ reqs'[s] = IdleReq

\* the step is a run of the sweep going on after its await
SweepGoesOn == \E w \in Sweeps :
    sweeps[w].pc = "disable" /\ sweeps[w].resp \in {"ok", "fail"}
                            /\ sweeps'[w] # sweeps[w]

\* C11: while a record is disabled, no step of join-room and no step of the
\* sweep changes it (its lastActivity and every other field stay).
C11_DisabledRecordUntouched ==
    [][(JoinEnds \/ SweepGoesOn) =>
        \A r \in RoomIds :
            (roomStore[r] # NoRoom /\ roomStore[r].disabled)
            => roomStore'[r] = roomStore[r]
      ]_vars

(* ---------------------- claims: local rejection --------------------- *)

\* a request to the endpoint arrived in this step: it was answered at once
\* or its handler was left in flight
ArrivalStep(kind) ==
    \/ out'.kind = kind
    \/ \E s \in Slots : reqs[s] = IdleReq /\ reqs'[s].kind = kind

\* the bodies that fail field validation or name a room the store lacks
CreateUnacceptable(b) == b.address \in {NoAddress, BadAddress} \/ b.fid.num = 0

JoinUnacceptable(b) ==
    \/ b.roomId = NoRoomId \/ b.fid.num = 0 \/ b.address = BadAddress
    \/ StoreGet(roomStore, b.roomId) = NoRoom

DisableUnacceptable(b) ==
    \/ b.roomId = NoRoomId \/ b.fid.num = 0
    \/ b.address \in {NoAddress, BadAddress}
    \/ StoreGet(roomStore, b.roomId) = NoRoom

\* the step sent nothing to the network (no handler waits, the token was not
\* fetched) and wrote nothing to the store
NoCallNoWrite ==
    /\ reqs' = reqs
    /\ UNCHANGED tokenVars
    /\ hms' = hms
    /\ roomStore' = roomStore
    /\ roomOrder' = roomOrder

\* C12: on each of the four endpoints a request over the rate limit, with
\* missing or malformed fields, or naming a room absent from the store is
\* refused in the step of its arrival, before any call to the network, and
\* leaves the store as it was: a step of an endpoint either is such a
\* refusal or is the arrival of no such request.
C12_RejectedBeforeAnyCall ==
    [][\A s \in Slots, ip \in ServerIps :
        Receive(s) =>
        /\ ArrivalStep("rooms") =>
                \/ NoCallNoWrite
                \/ ~(RateLimited(rateLimit, ip, now) /\ GetRooms(s, ip))
        /\ ArrivalStep("create") =>
                \/ out'.error # "none" /\ NoCallNoWrite
                \/ \A b \in CreateBodies({1}) :
                        ~(/\ RateLimited(rateLimit, ip, now) \/ CreateUnacceptable(b)
                          /\ PostCreateRoom(s, ip, b.address, b.fid))
        /\ ArrivalStep("join") =>
                \/ out'.error # "none" /\ NoCallNoWrite
                \/ \A b \in JoinBodies({1}) :
                        ~(/\ RateLimited(rateLimit, ip, now) \/ JoinUnacceptable(b)
                          /\ PostJoinRoom(s, ip, b.roomId, b.fid, b.address))
        /\ ArrivalStep("disable") =>
                \/ out'.error # "none" /\ NoCallNoWrite
                \/ \A b \in DisableBodies({1}) :
                        ~(/\ RateLimited(rateLimit, ip, now) \/ DisableUnacceptable(b)
                          /\ PostDisableRoom(s, ip, b.roomId, b.address, b.fid))
      ]_vars

\* a join-room request for a room the store lacks was refused
C12_Witness ==
    /\ out.kind = "join"
    /\ out.error = "Room not found"
    /\ \A s \in Slots : reqs[s] = IdleReq
    /\ \A r \in RoomIds : roomStore[r] = NoRoom

(* ---------------------- claims: error reporting --------------------- *)

\* C13: a request over the rate limit, and a request whose handler ends on a
\* failed upstream call, is answered with an error; and create-room reports
\* a room created, existing or re-enabled only when the room exists on the
\* platform.
C13_FailuresReported ==
    [][/\ \A s \in Slots :
            (reqs[s].kind # "none" /\ reqs[s].resp = "fail" /\ reqs'[s] = IdleReq)
            => out'.error # "none"
       /\ (/\ \A ip \in ServerIps : RateLimited(rateLimit, ip, now)
           /\ out' # NoOut
           /\ reqs' = reqs)
          => out'.error # "none"
       /\ (out'.kind = "create" /\ out'.error = "none")
          => hms'[out'.roomId] # "none"
      ]_vars

(* -------------------- claims: the owner's disable -------------------- *)

\* C14: a disable-room request with the record's identity and address, for a
\* record create-room wrote, is let through; when its upstream call succeeds
\* it answers success and leaves the record disabled; and from then until a
\* create-room stores the room again no run of the sweep issues a disable
\* call for the room.
C14_OwnerDisableIsFinal ==
    [][/\ ArrivalStep("disable") =>
            \A s \in Slots, ip \in Ips, b \in DisableBodies({1}) :
                (/\ StoreGet(roomStore, b.roomId) # NoRoom
                 /\ StoreGet(roomStore, b.roomId).fid = b.fid
                 /\ StoreGet(roomStore, b.roomId).address = b.address
                 /\ ~RateLimited(rateLimit, ip, now)
                 /\ PostDisableRoom(s, ip, b.roomId, b.address, b.fid))
                => reqs'[s].kind = "disable"
       /\ \A s \in Slots :
            (reqs[s].kind = "disable" /\ reqs[s].resp = "ok" /\ reqs'[s] = IdleReq)
            => /\ out'.status = "success"
               /\ roomStore'[reqs[s].roomId].disabled
       /\ \A r \in RoomIds, w \in Sweeps :
            retired[r] => ~(/\ sweeps'[w].pc = "disable"
                            /\ sweeps'[w].roomId = r
                            /\ \/ sweeps[w].pc # "disable"
                               \/ sweeps[w].pos # sweeps'[w].pos)
      ]_vars

(* --------------------- claims: a call that hangs -------------------- *)

\* C15: while the disable calls for one room never complete, every other
\* room that is idle and not disabled is eventually disabled by the sweep
\* (its own disable call succeeding), and every request handler in flight
\* eventually ends.
C15_HungCallDoesNotBlock ==
    /\ \A r \in RoomIds \ {HungRoom} :
            <>[](~Idle(roomStore[r], MaxTime - ROOM_TIMEOUT_MS))
    /\ \A s \in Slots : (reqs[s] # IdleReq) ~> (reqs[s] = IdleReq)

(* ------------------------- claims: startup -------------------------- *)

\* C16: the step that ends initializeRoomStore disturbs no request and no
\* sweep; when the listing failed it leaves the store as it is; when the
\* listing succeeded every listed room gets a record that is not disabled
\* and has the time of the reconciliation as lastActivity, and no other
\* record changes.
C16_ReconcileFailureContained ==
    [][(init.pc = "list" /\ init'.pc = "done") =>
        /\ reqs' = reqs /\ sweeps' = sweeps /\ hms' = hms
        /\ init.resp = "fail" => (roomStore' = roomStore /\ roomOrder' = roomOrder)
        /\ init.resp = "ok" =>
            \A r \in RoomIds :
                IF r \in init.rooms
                THEN /\ roomStore'[r] # NoRoom
                     /\ ~roomStore'[r].disabled
                     /\ roomStore'[r].lastActivity = now
                ELSE roomStore'[r] = roomStore[r]
      ]_vars

\* the listing failed at startup, the store started without the platform's
\* room, and a create-room request was served afterwards
C16_Witness ==
    /\ init.pc = "done"
    /\ init.resp = "fail"
    /\ out.kind = "create"
    /\ out.error = "none"
    /\ roomStore[out.roomId] # NoRoom
    /\ roomStore[out.roomId].address # NoAddress

(* --------------------- claims: concurrent refresh -------------------- *)

\* C17: whatever handlers and sweeps are in flight, a step refreshes the
\* token at most once, a refresh is whole within the step (the cache goes
\* from one complete token to the next, stamped with the time of the step),
\* and a call issued in any state is sent with the token cached before or
\* with the one the refresh produced, never with an empty one.
C17_RefreshIsAtomic ==
    [][/\ \A mintOk \in BOOLEAN :
            LET r == FetchToken(mintOk)
            IN  ~r.threw =>
                    /\ r.result # NoToken
                    /\ r.result \in {managementToken, generateManagementToken(mintCount)}
                    /\ r.token = r.result
       /\ managementToken' # NoToken
       /\ mintCount' \in {mintCount, mintCount + 1}
       /\ mintCount' = mintCount =>
            (managementToken' = managementToken /\ tokenGeneratedAt' = tokenGeneratedAt)
       /\ mintCount' = mintCount + 1 =>
            /\ managementToken' = generateManagementToken(mintCount)
            /\ tokenGeneratedAt' = now
            /\ now - tokenGeneratedAt > TOKEN_VALIDITY_DURATION
      ]_vars

\* the token was refreshed by a call issued while another handler and a
\* sweep were waiting for the platform
C17_Witness ==
    /\ mintCount = 2
    /\ tokenGeneratedAt = now
    /\ \A s \in Slots : reqs[s].kind = "join" /\ reqs[s].resp = "pending"
    /\ \E w \in Sweeps : sweeps[w].pc = "disable" /\ sweeps[w].resp = "pending"

(* ------------------- claims: sweep against join-room ----------------- *)

\* C18: when the sweep marks a record disabled, the record as the store
\* holds it at that moment has been idle for longer than the timeout: a
\* join-room that refreshed it while the sweep waited for the platform keeps
\* the sweep from marking it.
C18_SweepMarksOnlyIdle ==
    [][\A w \in Sweeps :
            (sweeps[w].pc = "disable" /\ sweeps[w].resp = "ok"
                /\ checkInactiveRoomsResume(w))
            => now - roomStore[sweeps[w].roomId].lastActivity > ROOM_TIMEOUT_MS
      ]_vars

(* ----------------- claims: rooms left without a record --------------- *)

\* C19: when a create-room handler that created or re-enabled the room on
\* the platform ends, with the response or with an error, and the room is
\* enabled on the platform, the store holds a record for it that is not
\* disabled.
C19_CreatedRoomIsTracked ==
    [][\A s \in Slots :
            (/\ reqs[s].kind = "create"
             /\ reqs[s].pc = "code"
             /\ reqs[s].existing \in {"null", "disabled"}
             /\ reqs'[s] = IdleReq
             /\ hms'[reqs[s].roomId] = "enabled")
            => /\ roomStore'[reqs[s].roomId] # NoRoom
               /\ ~roomStore'[reqs[s].roomId].disabled
      ]_vars

(* ------------------- claims: concurrent create-room ------------------ *)

\* the create-room handler in slot s has sent POST /rooms
SentCreate(s) ==
    /\ reqs[s].kind = "create"
    /\ \/ reqs[s].pc = "create" /\ reqs[s].resp \in {"pending", "ok", "fail"}
       \/ reqs[s].pc = "code" /\ reqs[s].existing = "null"

\* C20: two create-room handlers in flight for the same owner have not both
\* sent a room-creation call to the platform.
C20_OneCreationCall ==
    \A s, t \in Slots :
        (s # t /\ reqs[s].roomId = reqs[t].roomId) =>
            ~(SentCreate(s) /\ SentCreate(t))

(* ------------------- claims: reconciled records ---------------------- *)

\* the store holds, for room r, the record of the startup reconciliation
\* (the only records without an owner address)
Reconciled(r) == roomStore[r] # NoRoom /\ roomStore[r].address = NoAddress

\* C21: while the store holds the reconciliation's record for a room (no
\* owner address), every disable-room request arriving for the room is
\* refused whatever identity and address it presents, and the record is
\* marked disabled by no step but the sweep's.
C21_ReconciledOnlySwept ==
    [][\A r \in RoomIds : Reconciled(r) =>
        /\ DisableStep =>
                \A body \in DisableBodies({r}) :
                    (/\ body.roomId = r
                     /\ \E s \in Slots, ip \in ServerIps :
                            PostDisableRoom(s, ip, body.roomId, body.address, body.fid))
                    => /\ out'.kind = "disable"
                       /\ out'.error # "none"
                       /\ reqs' = reqs
                       /\ roomStore' = roomStore
                       /\ hms' = hms
        /\ (~roomStore[r].disabled /\ roomStore'[r].disabled) => SweepGoesOn
      ]_vars

(* ------------------ claims: rate limiter entries --------------------- *)

\* C22: a rejected checkRateLimit call leaves the key's entry (count and
\* timestamp) as it was, and a call arriving more than the window duration
\* after the key's last admitted call is admitted, with a fresh entry,
\* whether or not rejected calls came in between.
C22_RejectionsDoNotExtend ==
    rateCall.ip # "none" =>
        /\ ~rateCall.admitted =>
                /\ rateCall.before # NoEntry
                /\ rateLimit[rateCall.ip] = rateCall.before
        /\ (/\ rateCall.lastBefore >= 0
            /\ rateCall.at > rateCall.lastBefore + RATE_LIMIT_WINDOW_MS)
           => /\ rateCall.admitted
              /\ rateLimit[rateCall.ip] = [count |-> 1, timestamp |-> rateCall.at]

\* a key at the quota was rejected, and its next call, more than the window
\* after its last admitted one, was admitted
C22_Witness ==
    /\ rateCall.ip # "none"
    /\ rateCall.before # NoEntry
    /\ rateCall.before.count = MAX_REQUESTS_PER_WINDOW
    /\ rateCall.rejectedSince = 1
    /\ rateCall.at > rateCall.lastBefore + RATE_LIMIT_WINDOW_MS
    /\ rateCall.admitted

\* C23: every entry of the rate-limit map has a count between 1 and the
\* quota, equal to the number of calls admitted for the key since the entry
\* was created, and the time of the key's last admitted call as timestamp.
C23_EntryCountsAdmitted ==
    \A k \in Ips :
        rateLimit[k] # NoEntry =>
            /\ rateLimit[k].count >= 1
            /\ rateLimit[k].count <= MAX_REQUESTS_PER_WINDOW
            /\ rateLimit[k].count = admitted[k].since
            /\ rateLimit[k].timestamp = admitted[k].last

\* two keys have entries, made by interleaved calls: one is at the quota
\* with its second call later than its first, the other was admitted once
C23_Witness ==
    \E k, j \in Ips :
        /\ k # j
        /\ rateLimit[k] # NoEntry /\ rateLimit[j] # NoEntry
        /\ rateLimit[k].count = MAX_REQUESTS_PER_WINDOW
        /\ rateLimit[k].timestamp > windowStart[k]
        /\ rateLimit[j].count = 1
        /\ windowStart[k] < windowStart[j] /\ windowStart[j] < rateLimit[k].timestamp


=============================================================================
